---- MODULE Spec2Model ----
(***************************************************************************)
(* Model of ackermann_local_planner::AckermannPlannerROS                   *)
(* (src/ackermann_local_planner/src/ackermann_planner_ros.cpp).            *)
(*                                                                         *)
(* The controller object is the state; initialize, setPlan, isGoalReached  *)
(* and reconfigureCB are one action each; computeVelocityCommands is a     *)
(* sequence of steps (pc) so that a loop that does not exit and a handler  *)
(* that runs between two of its statements can be expressed.               *)
(* Lengths are in thousandths of a metre, angles in thousandths of a       *)
(* radian, headings in quarter turns.                                      *)
(***************************************************************************)
EXTENDS Integers, Sequences, FiniteSets, TLC

\* ---------------------------------------------------------------- bounds
MaxLen == 3          \* longest path handed to setPlan
CycleDt == 100       \* time between two cycles, in thousandths of a second

\* ------------------------------------------------------ program constants
BestMetricInit == 2000000000   \* best_metric = 1e10, above every metric
JumpThreshold == 20            \* abs(plan_point - last_plan_point_) > 20

\* ------------------------------------------------------------ value sets
Waypoints == {[x |-> 0, y |-> 0, yaw |-> 0], [x |-> 1, y |-> 0, yaw |-> 1]}
Poses == Waypoints \cup {[x |-> 1, y |-> 0, yaw |-> 2]}
\* what the pose source and the odometry report together: the vehicle
\* standing at the first pose, driving forwards, driving backwards
RobotStates ==
  {[pose |-> [x |-> 0, y |-> 0, yaw |-> 0], vel |-> 0],
   [pose |-> [x |-> 1, y |-> 0, yaw |-> 1], vel |-> 1000],
   [pose |-> [x |-> 1, y |-> 0, yaw |-> 2], vel |-> -1000]}
UnsetPose == [x |-> -1, y |-> 0, yaw |-> 0]    \* a local not yet assigned
GarbagePose == [x |-> -2, y |-> 0, yaw |-> 0]  \* result of an out-of-range read
\* paths whose only near waypoint lies JumpThreshold, and JumpThreshold + 1,
\* waypoints ahead of the start
LongPath(n) ==
  [k \in 1..n |-> IF k = n THEN [x |-> 0, y |-> 0, yaw |-> 0]
                           ELSE [x |-> 1, y |-> 0, yaw |-> 1]]
LongPaths == {LongPath(JumpThreshold + 1), LongPath(JumpThreshold + 2)}
\* a path that drives forwards one metre and backs up again
CuspPath ==
  << [x |-> 0, y |-> 0, yaw |-> 0], [x |-> 1, y |-> 0, yaw |-> 0],
     [x |-> 0, y |-> 0, yaw |-> 0] >>
Paths ==
  UNION {[1..k -> Waypoints] : k \in 0..MaxLen} \cup LongPaths \cup {CuspPath}

\* the values an uninitialized int member can hold
GarbageInts == {-1, 0, 2}

\* AckermannPlannerConfig: the eight options reconfigureCB copies
Configs ==
  {[max_vel |-> 2000, min_vel |-> 0, min_radius |-> 1000, acc_lim |-> 1000,
    forward_point_distance |-> f, xy_goal_tolerance |-> 100,
    yaw_goal_tolerance |-> 100, move |-> m] : f \in {0, 1000}, m \in BOOLEAN}

\* the (transform listener, costmap) pairs a caller can hand to initialize
InitArgs == {<<1, 2>>, <<2, 1>>}
\* the three pointers before initialize has assigned them
UnsetHandles == [tf |-> 0, costmap_ros |-> 0, dsrv |-> 0]

ZeroCmd == [lin |-> 0, ang |-> 0]
Cmds == {ZeroCmd, [lin |-> 3000, ang |-> 1000]}

VARIABLES
  initialized,      \* initialized_
  plan,             \* plan_
  last_plan_point,  \* last_plan_point_
  limits,           \* max_vel_ .. move_
  handles,          \* tf_, costmap_ros_, dsrv_
  robot_pose,       \* the pose costmap_ros_->getRobotPose reports
  odom_vel,         \* the linear velocity odom_helper_.getOdom reports
  prev_cmd,         \* the linear speed the previous cycle left, if any
  pc,               \* position inside computeVelocityCommands
  linear_vel,       \* locals of computeVelocityCommands
  current_pose,
  plan_point,
  plan_pose,
  next_pose,
  i,
  forward,
  cmd_vel,          \* the caller's Twist
  cmd_written,      \* has this cycle assigned cmd_vel
  warned,           \* has this cycle printed the ROS_WARN of line 198
  ret,              \* the last call and what it returned
  stale,            \* setPlan ran after this cycle computed plan_point
  cycle_cfgs,       \* the limit sets in force at some time of this cycle
  read_fpd,         \* the forward_point_distance_ this cycle read last, if any
  read_move         \* the move_ this cycle read, if any

vars == <<initialized, plan, last_plan_point, limits, handles, robot_pose,
          odom_vel, prev_cmd, pc, linear_vel, current_pose, plan_point, plan_pose, next_pose, i, forward,
          cmd_vel, cmd_written, warned, ret, stale,
          cycle_cfgs, read_fpd, read_move>>

ctrl == <<initialized, plan, last_plan_point, limits, handles>>
outside == <<robot_pose, odom_vel, prev_cmd>>
locals == <<linear_vel, current_pose, plan_point, plan_pose, next_pose, i, forward>>
ghosts == <<stale, cycle_cfgs, read_fpd, read_move>>

\* ------------------------------------------------------- pure functions
Abs(n) == IF n < 0 THEN -n ELSE n

\* largest r with r*r <= n
RECURSIVE ISqrtFrom(_, _)
ISqrtFrom(n, r) == IF (r + 1) * (r + 1) > n THEN r ELSE ISqrtFrom(n, r + 1)
ISqrt(n) == ISqrtFrom(n, 0)

\* base_local_planner::getGoalPositionDistance: hypot of the offsets
getGoalPositionDistance(pose, gx, gy) ==
  1000 * ISqrt((gx - pose.x) * (gx - pose.x) + (gy - pose.y) * (gy - pose.y))

\* base_local_planner::getGoalOrientationAngleDifference: the signed
\* shortest angular distance from the pose's yaw to the goal's
getGoalOrientationAngleDifference(pose, goal_th) ==
  LET d == (goal_th - pose.yaw) % 4
  IN  IF d = 3 THEN -1571 ELSE d * 1571

Metric(pose, wp) ==
  getGoalPositionDistance(pose, wp.x, wp.y)
    + getGoalOrientationAngleDifference(pose, wp.yaw)

\* (int)n < (size_t)size: the int is converted to unsigned
ULess(n, size) == n >= 0 /\ n < size

\* (int)n < (size_t)size - 1: size - 1 wraps to the largest size_t at 0
ULessSizeMinus1(n, size) ==
  IF size = 0 THEN n # -1 ELSE n >= 0 /\ n < size - 1

\* the for loop with <= in place of <: the last of several equal minima
RECURSIVE Scan_LastOnTie(_, _, _, _, _)
Scan_LastOnTie(pl, pose, k, best_metric, best) ==
  IF ~ULess(k, Len(pl)) THEN best
  ELSE LET metric == Metric(pose, pl[k + 1])
       IN  IF metric <= best_metric
             THEN Scan_LastOnTie(pl, pose, k + 1, metric, k)
             ELSE Scan_LastOnTie(pl, pose, k + 1, best_metric, best)

\* the for loop of lines 185-195, from index k with the best so far
RECURSIVE Scan(_, _, _, _, _)
Scan(pl, pose, k, best_metric, best) ==
  IF ~ULess(k, Len(pl)) THEN best
  ELSE LET metric == Metric(pose, pl[k + 1])
       IN  IF metric < best_metric
             THEN Scan(pl, pose, k + 1, metric, k)
             ELSE Scan(pl, pose, k + 1, best_metric, best)

\* the search started at the head of the path instead of at the cursor
NearestPoint_FromHead(pl, cursor, pose) ==
  Scan(pl, pose, 0, BestMetricInit, cursor)

NearestPoint(pl, cursor, pose) == Scan(pl, pose, cursor, BestMetricInit, cursor)

isForwards(start, end) == TRUE

\* the condition of the while loop, forward_dist being 0.0 throughout
forward_dist == 0
LookaheadCond(fpd, k, pl, a, b, fwd) ==
  /\ forward_dist < fpd
  /\ ULess(k, Len(pl))
  /\ isForwards(a, b) = fwd

\* the two branches of the move_ switch exchanged
SynthCmd_Swapped(move, cmd) == IF move THEN ZeroCmd ELSE cmd

\* lines 228-233: what cmd_vel holds after the move_ switch
SynthCmd(move, cmd) == IF move THEN cmd ELSE ZeroCmd

Ret(op, arg, val) == [op |-> op, arg |-> arg, val |-> val]

\* ------------------------------------------------------------------ Init
Init ==
  /\ initialized = FALSE
  /\ plan = <<>>
  /\ last_plan_point \in GarbageInts
  /\ limits \in Configs
  /\ handles = UnsetHandles
  /\ \E r \in RobotStates : robot_pose = r.pose /\ odom_vel = r.vel
  /\ prev_cmd = {}
  /\ pc = "idle"
  /\ linear_vel = 0
  /\ current_pose = UnsetPose
  /\ plan_point = 0
  /\ plan_pose = UnsetPose
  /\ next_pose = UnsetPose
  /\ i = 0
  /\ forward = TRUE
  /\ cmd_vel = ZeroCmd
  /\ cmd_written = FALSE
  /\ warned = FALSE
  /\ ret = Ret("none", <<>>, "void")
  /\ stale = FALSE
  /\ cycle_cfgs = {}
  /\ read_fpd = {}
  /\ read_move = {}

\* --------------------------------------------------------------- handlers
InCycle == pc \notin {"idle", "crashed"}

\* the steps between computing plan_point (line 195) and its last use
\* as an index of plan_ (line 208)
IndexLive == pc \in {"adopt", "index", "branch"}

\* lines 53-69; dsrv_ exists once initialize has run
reconfigureCB(config) ==
  /\ initialized
  /\ limits' = config
  /\ cycle_cfgs' = IF InCycle THEN cycle_cfgs \cup {config} ELSE cycle_cfgs
  /\ UNCHANGED <<initialized, plan, last_plan_point, handles, outside, pc,
                 locals, cmd_vel, cmd_written, warned, ret,
                 stale, read_fpd, read_move>>

\* initialize without the isInitialized test around the two assignments
initialize_Rebind(tf, costmap_ros) ==
  /\ handles' = [tf |-> tf, costmap_ros |-> costmap_ros, dsrv |-> 1]
  /\ IF ~initialized
       THEN /\ initialized' = TRUE
            /\ \E config \in Configs : limits' = config
       ELSE UNCHANGED <<initialized, limits>>
  /\ ret' = Ret("initialize", <<>>, "void")
  /\ UNCHANGED <<plan, last_plan_point, outside, pc, locals, cmd_vel,
                 cmd_written, warned, ghosts>>

\* lines 75-102; setCallback runs reconfigureCB with the loaded configuration
initialize(tf, costmap_ros) ==
  /\ IF ~initialized
       THEN /\ handles' = [tf |-> tf, costmap_ros |-> costmap_ros, dsrv |-> 1]
            /\ initialized' = TRUE
            /\ \E config \in Configs : limits' = config
       ELSE UNCHANGED <<initialized, limits, handles>>
  /\ ret' = Ret("initialize", <<>>, "void")
  /\ UNCHANGED <<plan, last_plan_point, outside, pc, locals, cmd_vel,
                 cmd_written, warned, ghosts>>

\* setPlan that keeps the stored path when handed an empty one
setPlan_KeepOnEmpty(orig_global_plan) ==
  /\ IF ~initialized
       THEN /\ ret' = Ret("setPlan", orig_global_plan, "false")
            /\ UNCHANGED <<plan, last_plan_point, stale>>
       ELSE /\ plan' = IF orig_global_plan = <<>> THEN plan
                                                 ELSE orig_global_plan
            /\ last_plan_point' = 0
            /\ stale' = (stale \/ IndexLive)
            /\ ret' = Ret("setPlan", orig_global_plan, "true")
  /\ UNCHANGED <<initialized, limits, handles, outside, pc, locals, cmd_vel,
                 cmd_written, warned, cycle_cfgs, read_fpd,
                 read_move>>

\* setPlan that leaves the cursor where it was
setPlan_NoReset(orig_global_plan) ==
  /\ IF ~initialized
       THEN /\ ret' = Ret("setPlan", orig_global_plan, "false")
            /\ UNCHANGED <<plan, last_plan_point, stale>>
       ELSE /\ plan' = orig_global_plan
            /\ last_plan_point' = last_plan_point
            /\ stale' = (stale \/ IndexLive)
            /\ ret' = Ret("setPlan", orig_global_plan, "true")
  /\ UNCHANGED <<initialized, limits, handles, outside, pc, locals, cmd_vel,
                 cmd_written, warned, cycle_cfgs, read_fpd,
                 read_move>>

\* lines 104-113
setPlan(orig_global_plan) ==
  /\ IF ~initialized
       THEN /\ ret' = Ret("setPlan", orig_global_plan, "false")
            /\ UNCHANGED <<plan, last_plan_point, stale>>
       ELSE /\ plan' = orig_global_plan
            /\ last_plan_point' = 0
            /\ stale' = (stale \/ IndexLive)
            /\ ret' = Ret("setPlan", orig_global_plan, "true")
  /\ UNCHANGED <<initialized, limits, handles, outside, pc, locals, cmd_vel,
                 cmd_written, warned, cycle_cfgs, read_fpd,
                 read_move>>

\* lines 115-123
isGoalReached ==
  /\ ret' = Ret("isGoalReached", <<>>, "false")
  /\ UNCHANGED <<ctrl, outside, pc, locals, cmd_vel, cmd_written, warned,
                 ghosts>>

\* the vehicle moves: what getRobotPose and getOdom report changes
RobotMoves(r) ==
  /\ robot_pose # r.pose
  /\ robot_pose' = r.pose
  /\ odom_vel' = r.vel
  /\ UNCHANGED <<ctrl, prev_cmd, pc, locals, cmd_vel, cmd_written, warned, ret,
                 ghosts>>

\* ------------------------------------------------ computeVelocityCommands
\* line 136: the caller passes its Twist
CallCompute(cmd) ==
  /\ pc = "idle"
  /\ pc' = "start"
  /\ cmd_vel' = cmd
  /\ cmd_written' = FALSE
  /\ warned' = FALSE
  /\ ret' = Ret("computeVelocityCommands", <<>>, "pending")
  /\ stale' = FALSE
  /\ cycle_cfgs' = {limits}
  /\ read_fpd' = {}
  /\ read_move' = {}
  /\ UNCHANGED <<ctrl, outside, locals>>

\* lines 165-179: have_particlecloud_ and have_pose_with_cow_ are never
\* assigned, so current_pose is the reported pose or is left unset; before
\* initialize costmap_ros_ is an unset pointer and the call through it may
\* end the process
GetPose ==
  /\ pc = "start"
  /\ linear_vel' = odom_vel
  /\ \/ /\ \E p \in {robot_pose} \cup Poses : current_pose' = p
        /\ pc' = "search"
     \/ /\ ~initialized
        /\ pc' = "crashed"
        /\ UNCHANGED current_pose
  /\ UNCHANGED <<ctrl, outside, plan_point, plan_pose, next_pose, i,
                 forward, cmd_vel, cmd_written, warned, ret,
                 ghosts>>

\* lines 183-195
Search ==
  /\ pc = "search"
  /\ plan_point' = NearestPoint(plan, last_plan_point, current_pose)
  /\ pc' = "adopt"
  /\ UNCHANGED <<ctrl, outside, linear_vel, current_pose, plan_pose, next_pose, i,
                 forward, cmd_vel, cmd_written, warned, ret,
                 ghosts>>

\* the warning given from a jump of JumpThreshold on
Adopt_WarnAtThreshold ==
  /\ pc = "adopt"
  /\ warned' = (Abs(plan_point - last_plan_point) >= JumpThreshold)
  /\ last_plan_point' = plan_point
  /\ pc' = "index"
  /\ UNCHANGED <<initialized, plan, limits, handles, outside, locals,
                 cmd_vel, cmd_written, ret, ghosts>>

\* lines 197-201
Adopt ==
  /\ pc = "adopt"
  /\ warned' = (Abs(plan_point - last_plan_point) > JumpThreshold)
  /\ last_plan_point' = plan_point
  /\ pc' = "index"
  /\ UNCHANGED <<initialized, plan, limits, handles, outside, locals,
                 cmd_vel, cmd_written, ret, ghosts>>

\* plan_[k] of a std::vector: outside the vector the read yields whatever
\* the memory holds, or ends the process
InRange(k, pl) == k >= 0 /\ k < Len(pl)

\* line 202
Index ==
  /\ pc = "index"
  /\ IF InRange(plan_point, plan)
       THEN plan_pose' = plan[plan_point + 1] /\ pc' = "branch"
       ELSE \/ plan_pose' = GarbagePose /\ pc' = "branch"
            \/ plan_pose' = plan_pose /\ pc' = "crashed"
  /\ UNCHANGED <<ctrl, outside, linear_vel, current_pose, plan_point, next_pose, i,
                 forward, cmd_vel, cmd_written, warned, ret,
                 ghosts>>

\* lines 206-213
Branch ==
  /\ pc = "branch"
  /\ IF ULessSizeMinus1(plan_point, Len(plan))
       THEN /\ i' = plan_point + 1
            /\ IF InRange(plan_point + 1, plan)
                 THEN next_pose' = plan[plan_point + 2] /\ pc' = "loop_test"
                 ELSE \/ next_pose' = GarbagePose /\ pc' = "loop_test"
                      \/ next_pose' = next_pose /\ pc' = "crashed"
            /\ forward' = isForwards(plan_pose, next_pose')
       ELSE /\ pc' = "synth"
            /\ UNCHANGED <<i, next_pose, forward>>
  /\ UNCHANGED <<ctrl, outside, linear_vel, current_pose, plan_point, plan_pose,
                 cmd_vel, cmd_written, warned, ret, ghosts>>

\* lines 214-216: the condition is evaluated; the loop having no side
\* effect, a build that assumes forward progress may also leave it at once
LoopTest ==
  /\ pc = "loop_test"
  /\ \/ /\ read_fpd' = {limits.forward_point_distance}
        /\ pc' = IF LookaheadCond(limits.forward_point_distance, i, plan,
                                  plan_pose, next_pose, forward)
                   THEN "loop_body" ELSE "synth"
     \/ pc' = "synth" /\ UNCHANGED read_fpd
  /\ UNCHANGED <<ctrl, outside, locals, cmd_vel, cmd_written, warned, ret,
                 stale, cycle_cfgs, read_move>>

\* line 217: the empty body
LoopBody ==
  /\ pc = "loop_body"
  /\ pc' = "loop_test"
  /\ UNCHANGED <<ctrl, outside, locals, cmd_vel, cmd_written, warned, ret,
                 ghosts>>

\* lines 228-233
Synth ==
  /\ pc = "synth"
  /\ read_move' = {limits.move}
  /\ cmd_vel' = SynthCmd(limits.move, cmd_vel)
  /\ cmd_written' = ~limits.move
  /\ pc' = "ret"
  /\ UNCHANGED <<ctrl, outside, locals, warned, ret, stale,
                 cycle_cfgs, read_fpd>>

\* a return that reports success when the command was left to the caller
Return_TrueOnMove ==
  /\ pc = "ret"
  /\ ret' = Ret("computeVelocityCommands", <<>>,
                IF cmd_written THEN "false" ELSE "true")
  /\ pc' = "idle"
  /\ linear_vel' = 0
  /\ current_pose' = UnsetPose
  /\ plan_point' = 0
  /\ plan_pose' = UnsetPose
  /\ next_pose' = UnsetPose
  /\ i' = 0
  /\ forward' = TRUE
  /\ stale' = FALSE
  /\ cycle_cfgs' = {}
  /\ read_fpd' = {}
  /\ read_move' = {}
  /\ prev_cmd' = {cmd_vel.lin}
  /\ UNCHANGED <<ctrl, robot_pose, odom_vel, cmd_vel, cmd_written, warned>>

\* line 235; the locals go out of scope
Return ==
  /\ pc = "ret"
  /\ ret' = Ret("computeVelocityCommands", <<>>, "false")
  /\ pc' = "idle"
  /\ linear_vel' = 0
  /\ current_pose' = UnsetPose
  /\ plan_point' = 0
  /\ plan_pose' = UnsetPose
  /\ next_pose' = UnsetPose
  /\ i' = 0
  /\ forward' = TRUE
  /\ stale' = FALSE
  /\ cycle_cfgs' = {}
  /\ read_fpd' = {}
  /\ read_move' = {}
  /\ prev_cmd' = {cmd_vel.lin}
  /\ UNCHANGED <<ctrl, robot_pose, odom_vel, cmd_vel, cmd_written, warned>>

Cycle ==
  \/ GetPose \/ Search \/ Adopt \/ Index \/ Branch
  \/ LoopTest \/ LoopBody \/ Synth \/ Return

\* ---------------------------------------------------------- specifications
\* calls made one after the other by a single caller
SeqInitialize == pc = "idle" /\ \E a \in InitArgs : initialize(a[1], a[2])
SeqSetPlan == pc = "idle" /\ \E p \in Paths : setPlan(p)
SeqIsGoalReached == pc = "idle" /\ isGoalReached
SeqReconfigure == pc = "idle" /\ \E c \in Configs : reconfigureCB(c)
\* the sources are sampled once per cycle; the vehicle moves between cycles
Moves == pc = "idle" /\ \E r \in RobotStates : RobotMoves(r)
Call == \E cmd \in Cmds : CallCompute(cmd)

Next ==
  \/ SeqInitialize \/ SeqSetPlan \/ SeqIsGoalReached \/ SeqReconfigure
  \/ Moves \/ Call
  \/ GetPose \/ Search \/ Adopt \/ Index \/ Branch
  \/ LoopTest \/ LoopBody \/ Synth \/ Return

Spec == Init /\ [][Next]_vars

\* the cycle's thread keeps running
LiveSpec == Spec /\ WF_vars(Cycle)

\* reconfigureCB arrives from the reconfigure server's context while a
\* cycle runs
AsyncReconfigure == pc # "crashed" /\ \E c \in Configs : reconfigureCB(c)

AsyncCfgNext ==
  \/ SeqInitialize \/ SeqSetPlan \/ SeqIsGoalReached \/ AsyncReconfigure
  \/ Moves \/ Call
  \/ GetPose \/ Search \/ Adopt \/ Index \/ Branch
  \/ LoopTest \/ LoopBody \/ Synth \/ Return

AsyncCfgSpec == Init /\ [][AsyncCfgNext]_vars

\* setPlan arrives from another context while a cycle runs
AsyncSetPlan == pc # "crashed" /\ \E p \in Paths : setPlan(p)

AsyncPlanNext ==
  \/ SeqInitialize \/ AsyncSetPlan \/ SeqIsGoalReached \/ SeqReconfigure
  \/ Moves \/ Call
  \/ GetPose \/ Search \/ Adopt \/ Index \/ Branch
  \/ LoopTest \/ LoopBody \/ Synth \/ Return

AsyncPlanSpec == Init /\ [][AsyncPlanNext]_vars

TypeOK ==
  /\ initialized \in BOOLEAN
  /\ plan \in Paths
  /\ limits \in Configs
  /\ pc \in {"idle", "start", "search", "adopt", "index", "branch",
             "loop_test", "loop_body", "synth", "ret", "crashed"}

\* ------------------------------------------------------------- properties
IsCvc == ret.op = "computeVelocityCommands"

\* C1: on an initialized controller setPlan(path), whatever the state and
\* the path (the empty one included), leaves exactly that path stored, the
\* cursor at 0, and returns true.
C1_SetPlanReplaces ==
  (initialized /\ ret.op = "setPlan")
    => (ret.val = "true" /\ plan = ret.arg /\ last_plan_point = 0)

\* setPlan has accepted a two-waypoint path
C1_Witness ==
  initialized /\ ret.op = "setPlan" /\ ret.val = "true" /\ Len(plan) = 2

\* C2: before initialize every entry point reports failure and changes
\* nothing: path, cursor, limits and the caller's command stay as they were.
C2_NoMutationBeforeInit ==
  [][(~initialized /\ ~initialized')
       => /\ plan' = plan
          /\ last_plan_point' = last_plan_point
          /\ limits' = limits
          /\ cmd_written' = FALSE
          /\ ret'.val # "true"]_vars

\* C3: the lookahead walk of a cycle on an initialized controller always
\* stops, so the cycle reaches its return.
C3_LookaheadTerminates ==
  (initialized /\ pc = "loop_test") ~> (pc = "ret")

\* C4: a cycle that finds the move-enable flag false returns with the
\* caller's command equal to the zero command, whatever the path, the
\* cursor and the other limits.
C4_StopWhenMoveOff ==
  (pc = "ret" /\ ~limits.move) => cmd_vel = ZeroCmd

\* a cycle on a stored path, flag off, about to return
C4_Witness ==
  /\ pc = "ret" /\ initialized /\ Len(plan) > 0
  /\ ~limits.move /\ cmd_written /\ cmd_vel = ZeroCmd

\* C5: on an initialized controller with an empty stored path a cycle
\* returns failure and does not write the caller's command, for every value
\* of the move flag and the limits.
C5_EmptyPathNoCommand ==
  (pc = "idle" /\ initialized /\ IsCvc /\ plan = <<>>)
    => (ret.val = "false" /\ ~cmd_written)

\* the goal test of the specification: cursor on the last waypoint and the
\* reported pose within both tolerances of it
AtGoal ==
  /\ Len(plan) > 0
  /\ last_plan_point = Len(plan) - 1
  /\ getGoalPositionDistance(robot_pose, plan[Len(plan)].x, plan[Len(plan)].y)
       <= limits.xy_goal_tolerance
  /\ Abs(getGoalOrientationAngleDifference(robot_pose, plan[Len(plan)].yaw))
       <= limits.yaw_goal_tolerance

\* C6: isGoalReached returns true when the cursor is on the final waypoint
\* and the current pose is within xy_goal_tolerance and yaw_goal_tolerance
\* of it (a one-waypoint path at the current pose in particular).
C6_GoalReachedAtGoal ==
  [][(isGoalReached /\ initialized /\ AtGoal) => ret'.val = "true"]_vars

\* C7: without a setPlan in between, no step lowers the cursor: the index a
\* cycle adopts is at least the cursor it started from.
C7_CursorMonotone ==
  [][(\E p \in Paths : setPlan(p)) \/ last_plan_point' >= last_plan_point]_vars

\* the search of a cycle has found an index beyond the cursor
C7_Witness ==
  pc = "adopt" /\ initialized /\ plan_point > last_plan_point

\* C8: in every state reached by calls made one after the other, a
\* non-empty stored path has the cursor within [0, length-1].
C8_CursorInRange ==
  Len(plan) > 0 => (last_plan_point >= 0 /\ last_plan_point <= Len(plan) - 1)

\* a cycle has moved the cursor to the last waypoint of a longer path
C8_Witness ==
  /\ pc = "idle" /\ IsCvc /\ Len(plan) > 1
  /\ last_plan_point = Len(plan) - 1

\* C9: a cycle sees the limits of one configuration only: the values it read
\* all belong to one of the limit sets in force during the cycle.
C9_LimitsAtomic ==
  pc = "ret"
    => \E c \in cycle_cfgs :
         /\ read_fpd \subseteq {c.forward_point_distance}
         /\ read_move \subseteq {c.move}

\* C10: a setPlan arriving during a cycle replaces path and cursor as one:
\* the cycle neither writes back nor indexes with an index it computed on
\* the path that has been replaced.
C10_PlanAtomic ==
  [][~(stale /\ IndexLive /\ pc' # pc)]_vars

\* C11: initialize on an already initialized controller changes nothing:
\* flag, path, cursor, limits and the registered collaborators stay as they
\* were, and the call raises no error.
C11_SecondInitializeNoOp ==
  [][(initialized /\ \E a \in InitArgs : initialize(a[1], a[2]))
       => (UNCHANGED ctrl /\ ret'.val = "void")]_vars

\* initialize has been called on a controller that already holds a path
C11_Witness ==
  /\ ret.op = "initialize" /\ initialized /\ Len(plan) > 0
  /\ handles.tf = 1 /\ handles.costmap_ros = 2 /\ handles.dsrv = 1

Sign(n) == IF n > 0 THEN 1 ELSE IF n < 0 THEN -1 ELSE 0

\* C12: with the move-enable flag true and a target waypoint available, the
\* linear speed a cycle leaves in the command lies in [min_vel, max_vel].
C12_SpeedWithinLimits ==
  (pc = "ret" /\ initialized /\ limits.move /\ Len(plan) > 0)
    => (limits.min_vel <= cmd_vel.lin /\ cmd_vel.lin <= limits.max_vel)

\* C13: a cycle never leaves a command whose linear velocity has the sign
\* opposite to the measured linear velocity, unless the measured velocity
\* is within 0.01 m/s of zero.
C13_NoReversalWhileMoving ==
  (pc = "ret" /\ initialized)
    => ~(Sign(cmd_vel.lin) * Sign(linear_vel) < 0 /\ Abs(linear_vel) > 10)

\* C14: the linear speeds commanded by two consecutive cycles differ by at
\* most acc_lim times the cycle time.
C14_AccelerationLimited ==
  (pc = "ret" /\ initialized)
    => \A v \in prev_cmd :
         Abs(cmd_vel.lin - v) * 1000 <= limits.acc_lim * CycleDt

\* index k is the first minimum of the metric over the waypoints from the
\* cursor to the end of the path
FirstSuffixMinimum(pl, cursor, pose, k) ==
  /\ k >= cursor /\ k <= Len(pl) - 1
  /\ \A j \in cursor..(Len(pl) - 1) :
       Metric(pose, pl[k + 1]) <= Metric(pose, pl[j + 1])
  /\ \A j \in cursor..(k - 1) :
       Metric(pose, pl[k + 1]) < Metric(pose, pl[j + 1])

\* C15: on a non-empty path the search of a cycle yields the index, from the
\* old cursor to the last, whose metric (position distance plus heading
\* difference to the current pose) is least, the lowest such index on a
\* tie; no index before the old cursor is taken and a cursor on the last
\* index stays.
C15_NearestIsSuffixMinimum ==
  (pc = "adopt" /\ initialized /\ Len(plan) > 0)
    => FirstSuffixMinimum(plan, last_plan_point, current_pose, plan_point)

\* the search has moved on to the first of two equal waypoints
C15_Witness ==
  /\ pc = "adopt" /\ initialized
  /\ plan_point > last_plan_point /\ plan_point + 2 <= Len(plan)
  /\ plan[plan_point + 1] = plan[plan_point + 2]

\* C16: a cycle whose nearest index is more than 20 away from the previous
\* cursor gives the warning and adopts the index; at a distance of at most
\* 20 it adopts the index without a warning.
C16_JumpWarning ==
  [][(pc = "adopt" /\ pc' = "index")
       => /\ warned' = (Abs(plan_point - last_plan_point) > 20)
          /\ last_plan_point' = plan_point]_vars

\* a jump of 21 waypoints has been warned about and adopted
C16_Witness ==
  /\ pc = "index" /\ initialized /\ warned
  /\ last_plan_point = JumpThreshold + 1 /\ InRange(last_plan_point, plan)

\* the component of the step from a to b along the heading of a is not
\* negative (headings in quarter turns)
AlongHeading(a, b) ==
  LET h == a.yaw % 4
      hx == IF h = 0 THEN 1 ELSE IF h = 2 THEN -1 ELSE 0
      hy == IF h = 1 THEN 1 ELSE IF h = 3 THEN -1 ELSE 0
  IN  hx * (b.x - a.x) + hy * (b.y - a.y) >= 0

\* C17: isForwards(a, b) is true exactly when the step from waypoint a to
\* waypoint b has a non-negative component along the heading of a, and false
\* on a reverse segment.
C17_IsForwardsBySign ==
  (pc = "loop_test" /\ initialized
     /\ InRange(plan_point, plan) /\ InRange(i, plan)
     /\ plan_pose = plan[plan_point + 1] /\ next_pose = plan[i + 1])
    => (forward = AlongHeading(plan_pose, next_pose))

\* C18: every waypoint a cycle of an initialized controller reads, plan_[k]
\* at line 202 and at line 208, has 0 <= k < size, the empty path and the
\* cycle before the first setPlan included.
C18_ReadsInRange ==
  initialized
    => /\ pc = "index" => InRange(plan_point, plan)
       /\ (pc = "branch" /\ ULessSizeMinus1(plan_point, Len(plan)))
            => InRange(plan_point + 1, plan)

\* C19: whenever computeVelocityCommands returns it returns false, in every
\* state and whatever the path, the pose, the limits and the move flag.
C19_AlwaysFailure ==
  (IsCvc /\ pc = "idle") => ret.val = "false"

\* a cycle with the flag on and a stored path has returned
C19_Witness ==
  /\ IsCvc /\ pc = "idle" /\ ret.val = "false"
  /\ initialized /\ limits.move /\ Len(plan) > 0 /\ ~cmd_written

====
